---- MODULE Spec2Model ----
(***************************************************************************)
(* The prerequisite scheduler of src/src/main.rs: Scheduler::new,          *)
(* Scheduler::add_task and Scheduler::start, with the threads that start   *)
(* spawns inside std::thread::scope.                                       *)
(***************************************************************************)
EXTENDS Naturals, Sequences, FiniteSets, TLC

\* The largest number of tasks the caller registers before start().
MaxTasks == 3

\* The round counter is a history variable; it saturates here.  A round that
\* dispatches a task removes it from tasks, so a run has at most MaxTasks
\* rounds that dispatch anything, and only a spinning run saturates.
MaxRound == MaxTasks + 1

\* enum Prerequisites
Prerequisites == {"LoadedTSwift", "LoadedColdplay"}

\* enum TaskResult: Finished(HashSet<Prerequisites>) | RunMeAgain
TaskResult ==
    [kind : {"Finished"}, facts : SUBSET Prerequisites]
        \cup [kind : {"RunMeAgain"}, facts : {{}}]

\* What a call of the boxed closure can do: return a TaskResult, or panic.
BodyOutcome == TaskResult \cup [kind : {"Panic"}, facts : {{}}]

\* struct Task, with the position of its registration as its identity.
Task == [id : 1..MaxTasks, prerequisites : SUBSET Prerequisites, task : BodyOutcome]

VARIABLES
    pc,              \* where the caller's thread is
    tasks,           \* self.tasks
    prerequisites,   \* self.prerequisites
    to_parallelise,  \* the tasks of the current round not yet spawned
    result,          \* the ScopedJoinHandle being joined (a task id), 0 if none
    running,         \* ids of the spawned threads whose closure is executing
    finished,        \* ids of the spawned threads that ended and are not joined
    registered,      \* history: every task given to add_task, in order
    executed,        \* history: how many times each closure was called
    joined,          \* history: ids of the threads that were joined
    round,           \* history: number of partitions taken (saturating)
    round_pending,   \* history: ids in self.tasks when the last partition was taken
    round_facts,     \* history: self.prerequisites when the last partition was taken
    round_tasks      \* history: ids put in to_parallelise by the last partition

vars == <<pc, tasks, prerequisites, to_parallelise, result, running, finished,
          registered, executed, joined, round, round_pending, round_facts,
          round_tasks>>

hist_round == <<round, round_pending, round_facts, round_tasks>>

\* ---------------------------------------------------------------------------
\* Pure helpers

Ids(s) == {s[k].id : k \in 1..Len(s)}

\* a slip: the receiver and the argument swapped
is_superset_swapped(a, b) == a \subseteq b

\* HashSet::is_superset
is_superset(a, b) == b \subseteq a

\* a slip: the filter lets every task through
eligible_always(t, facts) == TRUE

\* the closure handed to partition(): the task may run now
eligible(t, facts) == is_superset(facts, t.prerequisites)

\* a slip: the split stops at the first blocked task (take_while, not partition)
RECURSIVE partition_yes_prefix(_, _)
partition_yes_prefix(ts, facts) ==
    IF ts = <<>> \/ ~eligible(Head(ts), facts)
    THEN <<>>
    ELSE <<Head(ts)>> \o partition_yes_prefix(Tail(ts), facts)

\* Iterator::partition, first and second component; both keep the order
partition_yes(ts, facts) == SelectSeq(ts, LAMBDA t : eligible(t, facts))

partition_no(ts, facts) == SelectSeq(ts, LAMBDA t : ~eligible(t, facts))

\* a slip: every task stays pending, the dispatched ones too
others_keeps_all(ts, facts) == ts

\* a slip: the blocked tasks are dropped instead of kept
others_drops_blocked(ts, facts) == <<>>

\* what `self.tasks = others` leaves pending
others(ts, facts) == partition_no(ts, facts)

\* a slip: the new facts are dropped
extend_drops(s, new) == s

\* a slip: the set is assigned, not extended
extend_assigns(s, new) == new

\* a slip: a fact that is already there is taken out again
extend_toggles(s, new) == (s \ new) \cup (new \ s)

\* HashSet::extend
extend(s, new) == s \cup new

\* a slip: the handle is not waited for
is_finished_always(i) == TRUE

\* ScopedJoinHandle::join returns only once the thread has ended
is_finished(i) == i \notin running

\* ---------------------------------------------------------------------------
\* Scheduler::new

Init ==
    /\ pc = "reg"
    /\ tasks = <<>>
    /\ prerequisites = {}
    /\ to_parallelise = <<>>
    /\ result = 0
    /\ running = {}
    /\ finished = {}
    /\ registered = <<>>
    /\ executed = [i \in 1..MaxTasks |-> 0]
    /\ joined = {}
    /\ round = 0
    /\ round_pending = {}
    /\ round_facts = {}
    /\ round_tasks = {}

\* Scheduler::add_task
add_task(p, b) ==
    /\ pc = "reg"
    /\ Len(registered) < MaxTasks
    /\ LET t == [id |-> Len(registered) + 1, prerequisites |-> p, task |-> b]
       IN  /\ tasks' = Append(tasks, t)
           /\ registered' = Append(registered, t)
    /\ UNCHANGED <<pc, prerequisites, to_parallelise, result, running, finished,
                   executed, joined, hist_round>>

\* the caller calls scheduler.start(): the scheduler is moved, no add_task after
start ==
    /\ pc = "reg"
    /\ pc' = "loop"
    /\ UNCHANGED <<tasks, prerequisites, to_parallelise, result, running, finished,
                   registered, executed, joined, hist_round>>

\* if self.tasks.is_empty() { break; }
LoopBreak ==
    /\ pc = "loop"
    /\ tasks = <<>>
    /\ pc' = "returned"
    /\ UNCHANGED <<tasks, prerequisites, to_parallelise, result, running, finished,
                   registered, executed, joined, hist_round>>

\* let (to_parallelise, others) = self.tasks.into_iter().partition(..);
\* self.tasks = others; and the scope is entered
Partition ==
    /\ pc = "loop"
    /\ tasks # <<>>
    /\ to_parallelise' = partition_yes(tasks, prerequisites)
    /\ tasks' = others(tasks, prerequisites)
    /\ pc' = "for"
    /\ round' = IF round < MaxRound THEN round + 1 ELSE round
    /\ round_pending' = Ids(tasks)
    /\ round_facts' = prerequisites
    /\ round_tasks' = Ids(to_parallelise')
    /\ UNCHANGED <<prerequisites, result, running, finished, registered, executed,
                   joined>>

\* for mut task in to_parallelise { let result = s.spawn(move || (task.task)());
Spawn ==
    /\ pc = "for"
    /\ to_parallelise # <<>>
    /\ LET t == Head(to_parallelise)
       IN  /\ to_parallelise' = Tail(to_parallelise)
           /\ running' = running \cup {t.id}
           /\ result' = t.id
           /\ executed' = [executed EXCEPT ![t.id] = @ + 1]
    /\ pc' = "join"
    /\ UNCHANGED <<tasks, prerequisites, finished, registered, joined, hist_round>>

\* the spawned thread: (task.task)() returns or panics, and the thread ends
BodyReturn(i) ==
    /\ i \in running
    /\ running' = running \ {i}
    /\ finished' = finished \cup {i}
    /\ UNCHANGED <<pc, tasks, prerequisites, to_parallelise, result, registered,
                   executed, joined, hist_round>>

\* a slip: the Err of a panicked thread is taken for a result that asserts
\* every fact, and the loop goes on
Join_panic_merges ==
    /\ pc = "join"
    /\ is_finished(result)
    /\ LET r == registered[result].task
       IN  \/ /\ r.kind = "Finished"
              /\ prerequisites' = extend(prerequisites, r.facts)
              /\ pc' = "for"
           \/ /\ r.kind = "RunMeAgain"
              /\ prerequisites' = prerequisites
              /\ pc' = "for"
           \/ /\ r.kind = "Panic"
              /\ prerequisites' = extend(prerequisites, Prerequisites)
              /\ pc' = "panicked"
    /\ finished' = finished \ {result}
    /\ joined' = joined \cup {result}
    /\ result' = 0
    /\ UNCHANGED <<tasks, to_parallelise, running, registered, executed, hist_round>>

\* a slip: the result of join() is not unwrapped, a panicked thread is passed over
Join_ignores_panic ==
    /\ pc = "join"
    /\ is_finished(result)
    /\ LET r == registered[result].task
       IN  \/ /\ r.kind = "Finished"
              /\ prerequisites' = extend(prerequisites, r.facts)
              /\ pc' = "for"
           \/ /\ r.kind = "RunMeAgain"
              /\ prerequisites' = prerequisites
              /\ pc' = "for"
           \/ /\ r.kind = "Panic"
              /\ prerequisites' = prerequisites
              /\ pc' = "for"
    /\ finished' = finished \ {result}
    /\ joined' = joined \cup {result}
    /\ result' = 0
    /\ UNCHANGED <<tasks, to_parallelise, running, registered, executed, hist_round>>

\* if let TaskResult::Finished(new_prereqs) = result.join().unwrap() {
\*     self.prerequisites.extend(new_prereqs); }
Join ==
    /\ pc = "join"
    /\ is_finished(result)
    /\ LET r == registered[result].task
       IN  \/ /\ r.kind = "Finished"
              /\ prerequisites' = extend(prerequisites, r.facts)
              /\ pc' = "for"
           \/ /\ r.kind = "RunMeAgain"
              /\ prerequisites' = prerequisites
              /\ pc' = "for"
           \/ /\ r.kind = "Panic"
              /\ prerequisites' = prerequisites
              /\ pc' = "panicked"
    /\ finished' = finished \ {result}
    /\ joined' = joined \cup {result}
    /\ result' = 0
    /\ UNCHANGED <<tasks, to_parallelise, running, registered, executed, hist_round>>

\* the for loop is over and std::thread::scope returns, which it does only
\* once every thread spawned in the scope has ended
ScopeExit ==
    /\ pc = "for"
    /\ to_parallelise = <<>>
    /\ \A i \in running \cup finished : is_finished(i)
    /\ finished' = {}
    /\ pc' = "loop"
    /\ UNCHANGED <<tasks, prerequisites, to_parallelise, result, running, registered,
                   executed, joined, hist_round>>

\* the steps of start() and of the threads it spawns
Run ==
    \/ LoopBreak
    \/ Partition
    \/ Spawn
    \/ \E i \in 1..MaxTasks : BodyReturn(i)
    \/ Join
    \/ ScopeExit

Next ==
    \/ \E p \in SUBSET Prerequisites, b \in BodyOutcome : add_task(p, b)
    \/ start
    \/ Run

Spec == Init /\ [][Next]_vars

\* The caller's thread and the spawned threads keep being scheduled.
LiveSpec == Spec /\ WF_vars(Run)

\* ---------------------------------------------------------------------------
\* Properties

Started == pc # "reg"

InRound == pc \in {"for", "join"}

Produces(i) ==
    IF registered[i].task.kind = "Finished" THEN registered[i].task.facts ELSE {}

\* ids of the joined threads that returned Finished: their facts were merged
Merged == {i \in joined : registered[i].task.kind = "Finished"}

\* The facts that can ever hold: the least set closed under "a task whose
\* prerequisites hold runs and asserts its facts".
RECURSIVE Achievable(_, _)
Achievable(ts, F) ==
    LET G == F \cup UNION {ts[k].task.facts :
                              k \in {j \in 1..Len(ts) : ts[j].prerequisites \subseteq F}}
    IN  IF G = F THEN F ELSE Achievable(ts, G)

Satisfiable(ts) == \A k \in 1..Len(ts) : ts[k].prerequisites \subseteq Achievable(ts, {})

AllFinished(ts) == \A k \in 1..Len(ts) : ts[k].task.kind = "Finished"

\* C1: when every registered body returns Finished and every prerequisite is
\* achievable, start() reaches the state with no pending task and returns.
C1_Terminates ==
    (Started /\ AllFinished(registered) /\ Satisfiable(registered)) ~> (pc = "returned")

\* a chain of dependent tasks has run to the end
C1_Witness ==
    /\ pc = "returned"
    /\ Len(registered) = 3
    /\ AllFinished(registered)
    /\ round = 3

\* C2: no closure is called more than once, and when start() has returned every
\* registered closure has been called exactly once.
C2_ExactlyOnce ==
    /\ \A i \in 1..MaxTasks : executed[i] <= 1
    /\ pc = "returned" => \A i \in 1..Len(registered) : executed[i] = 1

\* a run of two rounds has returned, the second round's task was blocked in the first
C2_Witness ==
    /\ pc = "returned"
    /\ Len(registered) >= 2
    /\ round >= 2

\* C3: a closure is called only if its task's prerequisites were all in the
\* fact set when the round's partition was taken.
C3_PrereqsHeldAtPartition ==
    [][\A i \in 1..MaxTasks :
          executed'[i] > executed[i] => registered[i].prerequisites \subseteq round_facts]_vars

\* a task with both prerequisites is running in a later round
C3_Witness ==
    \E i \in running :
        /\ registered[i].prerequisites = Prerequisites
        /\ round_facts = Prerequisites
        /\ round >= 2

\* C4: the fact set starts empty and holds only facts of joined tasks that
\* returned Finished, and every prerequisite of a task whose closure was called
\* is a fact some such task returned.
C4_FactsComeFromFinishedTasks ==
    /\ ~Started => prerequisites = {}
    /\ prerequisites \subseteq UNION {Produces(j) : j \in Merged}
    /\ \A i \in 1..Len(registered) :
          executed[i] > 0 =>
              \A F \in registered[i].prerequisites : \E j \in Merged : F \in Produces(j)

\* a task that requires a fact is running after its producer was merged
C4_Witness ==
    \E i \in running :
        /\ registered[i].prerequisites # {}
        /\ \E j \in Merged : registered[i].prerequisites \subseteq Produces(j)

\* C5: no step of start() removes a fact from the fact set.
C5_AppendOnly == [][prerequisites \subseteq prerequisites']_vars

\* a second merge has added a fact to a fact set that already held one
C5_Witness ==
    /\ Cardinality(Merged) >= 2
    /\ prerequisites = Prerequisites
    /\ \E j \in Merged : Produces(j) = {"LoadedColdplay"}
    /\ \E j \in Merged : Produces(j) = {"LoadedTSwift"}

\* the closure of task i was called and its thread has ended
Completed(i) == executed[i] > 0 /\ i \notin running

\* C6: a round that begins with pending tasks none of which is eligible makes
\* start() end with a deadlock error.  (start() has no such exit.)
C6_DeadlockReported ==
    (pc = "loop" /\ tasks # <<>> /\ partition_yes(tasks, prerequisites) = <<>>)
        ~> (pc = "deadlock_error")

\* C7: the tasks of a round run concurrently: all of them are spawned before
\* the first of them is joined.
C7_SpawnedBeforeAnyJoin ==
    (InRound /\ round_tasks \cap joined # {}) => \A i \in round_tasks : executed[i] > 0

\* What start() does instead: at most one spawned thread exists at any time.
OneThreadAtATime == Cardinality(running \cup finished) <= 1

\* C8: the partition of the next round is taken only when every thread spawned
\* so far has ended and was joined, and a closure is called only when every
\* thread of an earlier round has ended and was joined.
C8_Barrier ==
    [][/\ (pc = "loop" /\ pc' = "for") =>
              /\ running \cup finished = {}
              /\ \A i \in 1..MaxTasks : executed[i] > 0 => i \in joined
       /\ \A i \in 1..MaxTasks :
              executed'[i] > executed[i] =>
                  \A j \in 1..MaxTasks :
                      (executed[j] > 0 /\ j \notin round_tasks) =>
                          (j \in joined /\ j \notin running \cup finished)]_vars

\* a second round dispatches after the two tasks of the first were joined
C8_Witness ==
    /\ pc = "join"
    /\ round = 2
    /\ Cardinality(joined) = 2
    /\ running # {}

\* C9: the fact set is as the partition found it until the last task of the
\* round has completed.
C9_FactsFrozenInRound ==
    (InRound /\ \E i \in round_tasks : ~Completed(i)) => prerequisites = round_facts

\* What the partition does: the round holds exactly the eligible pending tasks,
\* exactly the others stay pending, and a task of the round is spawned or
\* still queued for this round's loop while the loop runs.
PartitionExact ==
    /\ round > 0 =>
           /\ round_tasks =
                  {i \in round_pending : registered[i].prerequisites \subseteq round_facts}
           /\ Ids(tasks) = round_pending \ round_tasks
    /\ InRound => \A i \in round_tasks : executed[i] > 0 \/ i \in Ids(to_parallelise)
    /\ (InRound /\ round = 1) =>
           \A i \in 1..Len(registered) :
               registered[i].prerequisites = {} => i \in round_tasks

\* the round's loop is no longer running, however it ended
RoundOver == round > 0 /\ pc \in {"loop", "returned", "panicked"}

\* C10: a partition puts exactly the eligible pending tasks in the round and
\* leaves exactly the others pending, and every task of the round is
\* dispatched in that round: once the round is over, each of them was spawned.
C10_EligibleAreDispatched ==
    /\ PartitionExact
    /\ RoundOver => \A i \in round_tasks : executed[i] = 1

\* The scenario of C11: Task1 and Task2 need nothing and assert one fact each,
\* Task3 needs both facts and asserts none; registered in this order.
Scenario123 ==
    << [id |-> 1, prerequisites |-> {},
        task |-> [kind |-> "Finished", facts |-> {"LoadedTSwift"}]],
       [id |-> 2, prerequisites |-> {},
        task |-> [kind |-> "Finished", facts |-> {"LoadedColdplay"}]],
       [id |-> 3, prerequisites |-> Prerequisites,
        task |-> [kind |-> "Finished", facts |-> {}]] >>

\* C11: in the scenario, round 1 dispatches exactly Task1 and Task2, round 2
\* exactly Task3, there is no third round, and start() has returned only after
\* round 2 with each of the three closures called exactly once.
C11_ScenarioTwoRounds ==
    (Started /\ registered = Scenario123) =>
        /\ round <= 2
        /\ round = 1 => (round_tasks = {1, 2} /\ executed[3] = 0)
        /\ (round = 1 /\ pc = "loop") => (executed[1] = 1 /\ executed[2] = 1)
        /\ round = 2 => (round_tasks = {3} /\ executed[1] = 1 /\ executed[2] = 1)
        /\ pc # "panicked"
        /\ pc = "returned" => (round = 2 /\ \A i \in 1..3 : executed[i] = 1)

\* the scenario has run to its end
C11_Witness ==
    /\ registered = Scenario123
    /\ pc = "returned"
    /\ round = 2
    /\ prerequisites = Prerequisites

\* C12: when a partition is taken, the fact set holds every fact returned in a
\* Finished result by a task dispatched in an earlier round: the facts the
\* partition saw include them, and so does the fact set whenever the loop is at
\* its head.
C12_FactsVisibleAtPartition ==
    /\ round > 0 =>
           \A i \in 1..Len(registered) :
               (executed[i] > 0 /\ i \notin round_tasks) => Produces(i) \subseteq round_facts
    /\ pc = "loop" =>
           \A i \in 1..Len(registered) :
               executed[i] > 0 => Produces(i) \subseteq prerequisites

\* the third partition has seen the facts of rounds 1 and 2
C12_Witness ==
    /\ pc = "for"
    /\ round = 3
    /\ round_facts = Prerequisites
    /\ round_tasks # {}
    /\ \E i \in joined : Produces(i) = {"LoadedTSwift"}
    /\ \E i \in joined : Produces(i) = {"LoadedColdplay"}

\* C13: a task whose closure returned RunMeAgain is not done: after its join it
\* is pending again, to be considered by a later partition.
C13_RunMeAgainStaysPending ==
    \A i \in joined : registered[i].task.kind = "RunMeAgain" => i \in Ids(tasks)

Panicked(i) == executed[i] > 0 /\ registered[i].task.kind = "Panic"

\* C14: a task whose closure panics adds nothing to the fact set: once such a
\* task was dispatched, also after its join, the fact set is exactly the union
\* of the facts of the joined tasks that returned Finished.
C14_PanicAddsNoFacts ==
    (\E i \in 1..Len(registered) : Panicked(i)) =>
        prerequisites = UNION {registered[j].task.facts : j \in Merged}

\* a task panicked after another task of the run had asserted a fact
C14_Witness ==
    /\ pc = "panicked"
    /\ prerequisites = {"LoadedTSwift"}
    /\ Cardinality(joined) = 2

\* C15: merging has set semantics: the join of a Finished task whose facts are
\* all in the fact set already leaves the fact set as it was, and after any
\* merges, of equal facts too, the fact set is the union of what was merged.
C15_MergeIdempotent ==
    [][\A i \in joined' \ joined :
          registered[i].task.kind = "Finished" =>
              /\ Produces(i) \subseteq prerequisites => prerequisites' = prerequisites
              /\ prerequisites' = UNION {Produces(j) : j \in Merged \cup {i}}]_vars

\* two tasks that assert the same fact were both merged
C15_Witness ==
    \E i, j \in Merged :
        /\ i # j
        /\ Produces(i) = {"LoadedColdplay"}
        /\ Produces(j) = {"LoadedColdplay"}
        /\ prerequisites = {"LoadedColdplay"}

\* the closure of task i has panicked and its thread has ended
Failed(i) == Panicked(i) /\ i \notin running

\* C16: once a closure has panicked no closure is called any more, neither of
\* the tasks left in the round nor of the pending ones, and start() does not
\* return.
C16_PanicIsFatal ==
    [][(\E i \in 1..Len(registered) : Failed(i)) =>
           /\ executed' = executed
           /\ pc' # "returned"
           /\ pc # "returned"]_vars

\* the run was aborted with a task of the round unspawned and a task pending
C16_Witness ==
    /\ pc = "panicked"
    /\ to_parallelise # <<>>
    /\ tasks # <<>>

\* task i requires a fact that no run of the registered tasks can assert
Unsatisfiable(i) == ~(registered[i].prerequisites \subseteq Achievable(registered, {}))

\* C17: once start() runs, a task that requires a fact that can never enter
\* the fact set is never dispatched and stays in self.tasks, and start() does
\* not return.
C17_UnsatisfiableStaysPending ==
    Started =>
        \A i \in 1..Len(registered) :
            Unsatisfiable(i) =>
                /\ executed[i] = 0
                /\ i \in Ids(tasks)
                /\ pc # "returned"

\* two rounds have run and the loop goes on with the unsatisfiable task pending
C17_Witness ==
    /\ pc = "loop"
    /\ round = 3
    /\ Cardinality(joined) = 2
    /\ Len(tasks) = 1
    /\ Unsatisfiable(tasks[1].id)

\* C18: the fact set changes only in a step in which the scheduler's thread
\* joins a thread that has ended, and only when no closure is executing.
C18_NoMergeWhileRunning ==
    [][prerequisites' # prerequisites =>
           /\ running = {}
           /\ running' = {}
           /\ pc = "join"
           /\ \E i \in joined' \ joined : i = result /\ executed[i] > 0]_vars

\* a merge has changed the fact set inside a round that still has a task to spawn
C18_Witness ==
    /\ pc = "for"
    /\ prerequisites # round_facts
    /\ to_parallelise # <<>>
    /\ running = {}

\* The registered tasks as a set of descriptions: neither the order of
\* registration nor the identity of a task is in it.
KindsOf(ts) ==
    {[prerequisites |-> ts[k].prerequisites, task |-> ts[k].task] : k \in 1..Len(ts)}

\* The facts that hold after n rounds, from the set of descriptions alone.
RECURSIVE FactsAfterRounds(_, _)
FactsAfterRounds(K, n) ==
    IF n = 0
    THEN {}
    ELSE LET F == FactsAfterRounds(K, n - 1)
         IN  F \cup UNION {t.task.facts : t \in {u \in K : u.prerequisites \subseteq F}}

\* The round of a task with prerequisites p: the first round whose partition
\* finds them all; 0 if there is none.
LevelOf(K, p) ==
    LET ns == {n \in 0..Cardinality(K) : p \subseteq FactsAfterRounds(K, n)}
    IN  IF ns = {} THEN 0 ELSE 1 + CHOOSE n \in ns : \A m \in ns : n <= m

NumRounds(K) ==
    LET ls == {LevelOf(K, t.prerequisites) : t \in K}
    IN  IF ls = {} THEN 0 ELSE CHOOSE l \in ls : \A m \in ls : m <= l

====
